---------------------------- MODULE Spec2Model ----------------------------
(***************************************************************************)
(* A model of show_me_server.py: the /answer and /show_me handlers, the    *)
(* in-memory session store SESSIONS and the helper functions they call.    *)
(*                                                                         *)
(* Python strings are TLA+ strings (TLC gives them Len, \o and SubSeq).    *)
(* An Optional[str] (a value that may be None: a missing JSON field, a     *)
(* regex that did not match, dict.get on a missing key) is a sequence of   *)
(* length at most one: None is << >> and the string s is <<s>>.            *)
(* A dict is a function from its keys; the empty dict is << >>.            *)
(* Non-ASCII characters of the source's literals (a curly apostrophe, the  *)
(* emoji) are written in ASCII here.  The "updated_at" timestamp of a      *)
(* session is written by /answer and read by nothing; it is left out.      *)
(*                                                                         *)
(* Spec handles the requests one after the other, each handler in one      *)
(* step.  ConcSpec handles them in threads that run at the same time, each *)
(* handler in the steps its accesses to SESSIONS and its blocking calls    *)
(* divide it into.                                                         *)
(***************************************************************************)
EXTENDS Integers, Sequences, FiniteSets, TLC

(***************************************************************************)
(* Python's str and re primitives                                          *)
(***************************************************************************)
None == << >>

Some(s) == <<s>>

\* bool(x) of an Optional[str]: None and "" are falsy
Truthy(o) == o # None /\ o[1] # ""

\* (o or s) where o is an Optional[str] and s a str
OrElse(o, s) == IF Truthy(o) THEN o[1] ELSE s

\* s[i], as a one-character string ("" outside the string)
CharAt(s, i) == IF i >= 1 /\ i <= Len(s) THEN SubSeq(s, i, i) ELSE ""

\* s[i-1:], positions counted from 1
From(s, i) == SubSeq(s, i, Len(s))

UpperCaseLetters == "ABCDEFGHIJKLMNOPQRSTUVWXYZ"

LowerCaseLetters == "abcdefghijklmnopqrstuvwxyz"

Digits == "0123456789"

\* s.find(p) >= 0 for a one-character p
HasChar(s, c) == \E i \in 1..Len(s) : SubSeq(s, i, i) = c

LowerChar(c) ==
    IF HasChar(UpperCaseLetters, c)
    THEN LET i == CHOOSE j \in 1..Len(UpperCaseLetters) : SubSeq(UpperCaseLetters, j, j) = c
         IN SubSeq(LowerCaseLetters, i, i)
    ELSE c

RECURSIVE Lower(_)
\* str.lower()
Lower(s) == IF s = "" THEN "" ELSE LowerChar(SubSeq(s, 1, 1)) \o Lower(From(s, 2))

\* the characters str.strip() removes (those that occur in the inputs)
Whitespace == {" ", "\t", "\n", "\r"}

\* the characters .strip(" ?.!,") removes
TopicTrim == {" ", "?", ".", "!", ","}

\* s.strip(chars)
StripChars(s, chars) ==
    LET keep == {i \in 1..Len(s) : SubSeq(s, i, i) \notin chars}
    IN IF keep = {} THEN ""
       ELSE LET lo == CHOOSE i \in keep : \A j \in keep : i <= j
                hi == CHOOSE i \in keep : \A j \in keep : i >= j
            IN SubSeq(s, lo, hi)

\* s.strip()
Strip(s) == StripChars(s, Whitespace)

\* s starts with p at position i
StartsAt(s, p, i) == i >= 1 /\ i + Len(p) - 1 <= Len(s) /\ SubSeq(s, i, i + Len(p) - 1) = p

\* the positions at which p occurs in s
Occurrences(s, p) == {i \in 1..(Len(s) - Len(p) + 1) : StartsAt(s, p, i)}

\* p in s
Contains(s, p) == Occurrences(s, p) # {}

Min(S) == CHOOSE i \in S : \A j \in S : i <= j

Max(S) == CHOOSE i \in S : \A j \in S : i >= j

\* s.find(p), counted from 1; 0 when p does not occur (Python's -1)
Find(s, p) == IF Contains(s, p) THEN Min(Occurrences(s, p)) ELSE 0

\* \w of the re module, on the ASCII characters of the inputs
IsWordChar(c) ==
    c # "" /\ (HasChar(LowerCaseLetters, c) \/ HasChar(UpperCaseLetters, c)
                \/ HasChar(Digits, c) \/ c = "_")

\* \b between positions i-1 and i of s (i = 1: the start, i = Len(s)+1: the end)
WordBoundary(s, i) == IsWordChar(CharAt(s, i - 1)) # IsWordChar(CharAt(s, i))

\* re.search(r"\bP\b", s) for a literal phrase P
SearchWord(s, p) ==
    \E i \in Occurrences(s, p) : WordBoundary(s, i) /\ WordBoundary(s, i + Len(p))


(***************************************************************************)
(* Helper functions                                                        *)
(***************************************************************************)
\* each trigger r"\bP\b" as the set of phrases P it matches ((me|us) expanded)
SHOW_TRIGGERS ==
    << {"show me"},
       {"show us"},
       {"can you show"},
       {"let me see"},
       {"let us see"},
       {"send me pictures", "send us pictures"},
       {"what does that look like"} >>

is_show_request(text) ==
    IF text = "" THEN FALSE
    ELSE LET t == Lower(text)
         IN \E n \in 1..Len(SHOW_TRIGGERS) : \E p \in SHOW_TRIGGERS[n] : SearchWord(t, p)

\* the lengths k of \s+ at position a of t after which (.+) can match:
\* k whitespace characters, then a character that is not a line break
SpaceThenText(t, a) ==
    {k \in 1..(Len(t) - a + 1) :
        /\ \A j \in a..(a + k - 1) : CharAt(t, j) \in Whitespace
        /\ CharAt(t, a + k) # ""
        /\ CharAt(t, a + k) # "\n"}

\* the end of the line that holds position b: (.+) does not cross a line break
LineEnd(t, b) == Max({e \in b..Len(t) : \A j \in b..e : CharAt(t, j) # "\n"})

\* re.search(P + r"\s+(.+)", t) for P one of the phrases: the group (.+) of the
\* leftmost match (\s+ and .+ greedy), or None
SearchThenRest(t, phrases) ==
    LET hits == {i \in 1..Len(t) :
                    \E p \in phrases : StartsAt(t, p, i) /\ SpaceThenText(t, i + Len(p)) # {}}
    IN IF hits = {} THEN None
       ELSE LET i == Min(hits)
                p == CHOOSE q \in phrases : StartsAt(t, q, i)
                a == i + Len(p)
                b == a + Max(SpaceThenText(t, a))
            IN Some(SubSeq(t, b, LineEnd(t, b)))

\* the two searches of extract_topic_from_utterance, m1 before m2
FirstTopic(m1, m2) ==
    IF m1 # None THEN Some(StripChars(m1[1], TopicTrim))
    ELSE IF m2 # None THEN Some(StripChars(m2[1], TopicTrim))
    ELSE None

\* extract_topic_from_utterance on t = text.lower().strip()
ExtractTopic(t) ==
    FirstTopic(SearchThenRest(t, {"can you show me", "can you show us"}),
               SearchThenRest(t, {"show me", "show us"}))

extract_topic_from_utterance(text) ==
    IF text = "" THEN None ELSE ExtractTopic(Strip(Lower(text)))

\* urllib's always-safe characters besides letters and digits
UrlSafePunctuation == "_.-~"

\* the %XX form of the other characters (the punctuation of the inputs)
PercentCode ==
    { <<"!", "%21">>, <<"#", "%23">>, <<"$", "%24">>, <<"%", "%25">>, <<"&", "%26">>,
      <<"'", "%27">>, <<"+", "%2B">>, <<",", "%2C">>, <<"/", "%2F">>, <<":", "%3A">>,
      <<";", "%3B">>, <<"=", "%3D">>, <<"?", "%3F">>, <<"@", "%40">>, <<"[", "%5B">>,
      <<"]", "%5D">>, <<"\t", "%09">>, <<"\n", "%0A">>, <<"\r", "%0D">> }

QuoteChar(c) ==
    IF HasChar(LowerCaseLetters, c) \/ HasChar(UpperCaseLetters, c)
       \/ HasChar(Digits, c) \/ HasChar(UrlSafePunctuation, c)
    THEN c
    ELSE IF c = " " THEN "+"
    ELSE (CHOOSE e \in PercentCode : e[1] = c)[2]

RECURSIVE QuotePlus(_)
\* urlencode({"": query})[1:], which is quote_plus(query)
QuotePlus(s) == IF s = "" THEN "" ELSE QuoteChar(SubSeq(s, 1, 1)) \o QuotePlus(From(s, 2))

google_images_url(query) == "https://www.google.com/search?tbm=isch&q=" \o QuotePlus(query)

youtube_url(query) == "https://www.youtube.com/results?search_query=" \o QuotePlus(query)

\* "kid friendly" in lower or "for kids" in lower
HasKidMarker(q) == Contains(Lower(q), "kid friendly") \/ Contains(Lower(q), "for kids")

ensure_kid_friendly_image_query(query) ==
    LET q == Strip(query)
    IN IF q = "" THEN "kid friendly images for kids"
       ELSE IF ~HasKidMarker(q) THEN "kid friendly " \o q
       ELSE q

\* ensure_kid_friendly_video_query that marks only the empty query
EnsureVideoUnmarked(query) ==
    IF Strip(query) = "" THEN "fun educational videos for kids" ELSE Strip(query)

ensure_kid_friendly_video_query(query) ==
    LET q == Strip(query)
    IN IF q = "" THEN "fun educational videos for kids"
       ELSE IF ~HasKidMarker(q) THEN q \o " for kids"
       ELSE q

\* re.search(r"\[TAG:(.*?)\]", t, re.IGNORECASE | re.DOTALL): group 1 of the
\* leftmost match, stripped, or None.  tag is written in lower case.
SearchTag(t, tag) ==
    LET opens == {i \in Occurrences(Lower(t), tag) :
                     \E j \in (i + Len(tag))..Len(t) : CharAt(t, j) = "]"}
    IN IF opens = {} THEN None
       ELSE LET i == Min(opens)
                j == Min({k \in (i + Len(tag))..Len(t) : CharAt(t, k) = "]"})
            IN Some(Strip(SubSeq(t, i + Len(tag), j - 1)))

\* the position of the first of the three tags as t.find sees them (case matters),
\* len(t) when there is none; here positions count from 1
FirstTag(t) ==
    LET found == {Find(t, tag) : tag \in {"[TOPIC:", "[IMAGE_QUERY:", "[VIDEO_QUERY:"}} \ {0}
    IN IF found = {} THEN Len(t) + 1 ELSE Min(found)

parse_llm_output(raw) ==
    [ spoken  |-> Strip(SubSeq(raw, 1, FirstTag(raw) - 1)),
      topic   |-> SearchTag(raw, "[topic:"),
      image_q |-> SearchTag(raw, "[image_query:"),
      video_q |-> SearchTag(raw, "[video_query:") ]

(***************************************************************************)
(* Requests and the collaborators' answers                                 *)
(***************************************************************************)
\* the "user_id" field of the JSON body: absent, or an identifier
UserIds == {None, Some("u1")}

\* the "text" field of the JSON body
Texts ==
    { None,
      Some("show us"),
      Some("Show me Blood!"),
      Some("show me !!!"),
      Some(" Why do volcanoes erupt and where does the lava come from? "),
      Some("can you show us whales for kids?") }

\* the "parent_phone" field of the JSON body
Phones == {None, Some(" "), Some("+15551234567")}

\* what response.text of the generative model can be
LlmReplies ==
    { "Magma pushes up! [TOPIC: volcanoes] [IMAGE_QUERY: Volcano For Kids] [VIDEO_QUERY: volcano eruption]",
      "[topic: ] [IMAGE_QUERY: lava]",
      "" }

\* text[:n]
TopicMaxLen == 50

Prefix(s, n) == SubSeq(s, 1, IF Len(s) < n THEN Len(s) ELSE n)

\* send_sms raises when the Twilio client does (with Twilio not configured it
\* only prints): whether one call raises
SendSmsRaises == BOOLEAN

(***************************************************************************)
(* State                                                                   *)
(***************************************************************************)
VARIABLES
    SESSIONS,     \* the session store: user_id -> session dict
    req,          \* the request handled last
    resp,         \* its response: [status, body]; status "500" is an uncaught exception
    locals,       \* the handler's local variables when it returned
    llm,          \* the calls of call_gemini it made: [question, forced_topic, raised, text]
    sms,          \* the calls of send_sms it made: [to_number, message, raised]
    lastAnswer,   \* history: user_id -> the text and the reply of its last /answer that stored
    replaced,     \* history: whether the request handled last wrote over a session
    threads       \* the requests in flight: thread -> where its handler is (pc), the
                  \* "user_id" field as sent (sent_id), and its locals

vars == <<SESSIONS, req, resp, locals, llm, sms, lastAnswer, replaced, threads>>

\* jsonify(body)
Ok(body) == [status |-> "200", body |-> body]

\* an exception left the handler: Flask answers 500
ServerError == [status |-> "500", body |-> << >>]

\* d.get(k) of a dict d
DictGet(d, k) == IF k \in DOMAIN d THEN Some(d[k]) ELSE None

\* SESSIONS.get(user_id, {})
SessionGet(S, user_id) == IF user_id \in DOMAIN S THEN S[user_id] ELSE << >>

\* SessionPut that updates an existing dict and keeps its cached image query
SessionPutMerge(S, user_id, session) ==
    [k \in DOMAIN S \cup {user_id} |->
        IF k # user_id THEN S[k]
        ELSE IF k \in DOMAIN S THEN [session EXCEPT !.image_query = S[k].image_query]
        ELSE session]

\* SessionPut that keeps the session an identifier has (dict.setdefault)
SessionPutFirst(S, user_id, session) ==
    [k \in DOMAIN S \cup {user_id} |-> IF k \in DOMAIN S THEN S[k] ELSE session]

\* SESSIONS[user_id] = session
SessionPut(S, user_id, session) ==
    [k \in DOMAIN S \cup {user_id} |-> IF k = user_id THEN session ELSE S[k]]

\* UserIdOf that trims the identifier and puts it in lower case
UserIdNormalized(field) == IF field = None THEN "anonymous" ELSE Lower(Strip(field[1]))

\* data.get("user_id", "anonymous")
UserIdOf(field) == IF field = None THEN "anonymous" ELSE field[1]

\* (data.get(name) or "").strip()
StrippedField(field) == Strip(OrElse(field, ""))

\* the threads of the server that handle requests at the same time
Threads == {"t1", "t2"}

\* a thread that handles no request
Idle == [pc |-> "idle"]

Init ==
    /\ SESSIONS = << >>
    /\ req = << >>
    /\ resp = << >>
    /\ locals = << >>
    /\ llm = << >>
    /\ sms = << >>
    /\ lastAnswer = << >>
    /\ replaced = FALSE
    /\ threads = [t \in Threads |-> Idle]

(***************************************************************************)
(* /answer                                                                 *)
(***************************************************************************)
\* AnswerTopic that takes the utterance itself as the topic
AnswerTopicVerbatim(text, forced_topic, p) == text

\* topic = topic or forced_topic or text[:50]
AnswerTopic(text, forced_topic, p) ==
    OrElse(p.topic, OrElse(forced_topic, Prefix(text, TopicMaxLen)))

\* the queries of /answer, from the parsed reply p and the topic
AnswerQueries(p, topic) ==
    [ spoken    |-> p.spoken,
      topic     |-> topic,
      image_src |-> OrElse(p.image_q, topic),
      video_src |-> OrElse(p.video_q, topic \o " videos"),
      image_q   |-> ensure_kid_friendly_image_query(OrElse(p.image_q, topic)),
      video_q   |-> ensure_kid_friendly_video_query(OrElse(p.video_q, topic \o " videos")) ]

\* the fallback logic of /answer on the parsed reply p
AnswerFallback(text, forced_topic, p) == AnswerQueries(p, AnswerTopic(text, forced_topic, p))

\* the try block of /answer on the reply raw: the locals it computes
AnswerFields(text, raw) ==
    AnswerFallback(text, extract_topic_from_utterance(text), parse_llm_output(raw))

\* the dict /answer stores
NewSession(text, f) ==
    [ current_topic |-> f.topic,
      image_query   |-> f.image_q,
      video_query   |-> f.video_q,
      last_question |-> text ]

\* /answer without its except branch
AnswerFailurePropagates == ServerError

\* what the except branch of /answer returns
AnswerFailure == Ok([spoken |-> "I'm having a little trouble thinking right now."])

AnswerSuccess(f) ==
    Ok([spoken |-> f.spoken, topic |-> f.topic, image_query |-> f.image_q, video_query |-> f.video_q])

(***************************************************************************)
(* /show_me                                                                *)
(***************************************************************************)
\* /show_me without its fallback literal
NoFallbackTopic == ""

FallbackTopic == "what we were talking about"

\* ResolveShow with the session asked before the utterance
ResolveShowSessionFirst(utter_topic, session) ==
    LET topic == OrElse(DictGet(session, "current_topic"), OrElse(utter_topic, FallbackTopic))
    IN [ topic     |-> topic,
         image_src |-> topic,
         video_src |-> topic \o " videos",
         image_q   |-> ensure_kid_friendly_image_query(topic),
         video_q   |-> ensure_kid_friendly_video_query(topic \o " videos") ]

\* ResolveShow that makes the queries from the topic again and never reads the
\* queries of the session
ResolveShowResynth(utter_topic, session) ==
    LET topic == OrElse(utter_topic, OrElse(DictGet(session, "current_topic"), FallbackTopic))
    IN [ topic     |-> topic,
         image_src |-> topic,
         video_src |-> topic \o " videos",
         image_q   |-> ensure_kid_friendly_image_query(topic),
         video_q   |-> ensure_kid_friendly_video_query(topic \o " videos") ]

\* the topic and the queries of a show-request, from the topic of the utterance
\* and the session read
ResolveShow(utter_topic, session) ==
    IF Truthy(utter_topic)
    THEN LET topic == utter_topic[1]
         IN [ topic     |-> topic,
              image_src |-> topic,
              video_src |-> topic \o " videos",
              image_q   |-> ensure_kid_friendly_image_query(topic),
              video_q   |-> ensure_kid_friendly_video_query(topic \o " videos") ]
    ELSE LET topic     == OrElse(DictGet(session, "current_topic"), FallbackTopic)
             image_src == OrElse(DictGet(session, "image_query"), topic)
             video_src == OrElse(DictGet(session, "video_query"), topic \o " videos")
         IN [ topic     |-> topic,
              image_src |-> image_src,
              video_src |-> video_src,
              image_q   |-> ensure_kid_friendly_image_query(image_src),
              video_q   |-> ensure_kid_friendly_video_query(video_src) ]

SmsText(topic, image_url, video_url) ==
    "Here are kid-friendly pictures and videos about " \o topic \o "!\n"
    \o "Images: " \o image_url \o "\n\n"
    \o "Videos: " \o video_url \o "\n\n"
    \o "- Catinci AI *"

ShowSpoken(topic) ==
    "Sure! I found kid-friendly pictures and videos about " \o topic \o ". "
    \o "I sent them to your grown-up!"

NotShowResponse == Ok([spoken |-> "If you'd like pictures or videos, just say 'show us'!"])

ShowResponse(r) ==
    Ok([spoken |-> r.spoken, image_url |-> r.image_url, video_url |-> r.video_url])

\* SmsWanted without the test of parent_phone
SmsAlways(parent_phone) == TRUE

\* whether /show_me calls send_sms
SmsWanted(parent_phone) == parent_phone # ""

\* /show_me past the trigger test: the locals it computes from the text and the
\* session read, with the message and the spoken sentence built from them
ShowLocals(session, utter_topic, r, image_url, video_url) ==
    [ session     |-> session,
      utter_topic |-> utter_topic,
      topic       |-> r.topic,
      image_src   |-> r.image_src,
      video_src   |-> r.video_src,
      image_q     |-> r.image_q,
      video_q     |-> r.video_q,
      image_url   |-> image_url,
      video_url   |-> video_url,
      message     |-> SmsText(r.topic, image_url, video_url),
      spoken      |-> ShowSpoken(r.topic) ]

\* "build links" and what follows, on the resolved topic and queries r
ShowLinks(session, utter_topic, r) ==
    ShowLocals(session, utter_topic, r, google_images_url(r.image_q), youtube_url(r.video_q))

ShowResolved(session, utter_topic) ==
    ShowLinks(session, utter_topic, ResolveShow(utter_topic, session))

ShowFields(text, session) == ShowResolved(session, extract_topic_from_utterance(text))

(***************************************************************************)
(* The functions above on the requests of the model, each value computed   *)
(* once                                                                    *)
(***************************************************************************)
Stripped == [f \in Texts \cup Phones |-> StrippedField(f)]

RequestTexts == {Stripped[t] : t \in Texts}

IsShow == [text \in RequestTexts |-> is_show_request(text)]

ForcedTopic == [text \in RequestTexts |-> extract_topic_from_utterance(text)]

Parsed == [raw \in LlmReplies |-> parse_llm_output(raw)]

Answered == [text \in RequestTexts, raw \in LlmReplies |-> AnswerFields(text, raw)]

\* the dicts SessionGet returns when SESSIONS holds what /answer stores
StoredSessions ==
    {<< >>} \cup {NewSession(text, Answered[text, raw]) : text \in RequestTexts, raw \in LlmReplies}

Shown == [text \in RequestTexts, session \in StoredSessions |-> ShowFields(text, session)]

ShowFieldsOf(text, session) ==
    IF session \in StoredSessions THEN Shown[text, session] ELSE ShowFields(text, session)

(***************************************************************************)
(* The handlers                                                            *)
(***************************************************************************)
\* /answer when call_gemini returned raw: f are the locals of the try block
AnswerStored(user_field, text_field, user_id, text, raw, f) ==
    /\ req' = [endpoint |-> "/answer", user_id |-> user_field, text |-> text_field]
    /\ llm' = << [question |-> text, forced_topic |-> ForcedTopic[text],
                  raised |-> FALSE, text |-> raw] >>
    /\ SESSIONS' = SessionPut(SESSIONS, user_id, NewSession(text, f))
    /\ lastAnswer' = [k \in DOMAIN lastAnswer \cup {user_id} |->
                         IF k = user_id THEN [text |-> text, raw |-> raw] ELSE lastAnswer[k]]
    /\ replaced' = (user_id \in DOMAIN SESSIONS)
    /\ locals' = [user_id |-> user_id, text |-> text, forced_topic |-> ForcedTopic[text],
                  topic |-> f.topic, image_src |-> f.image_src, video_src |-> f.video_src,
                  image_q |-> f.image_q, video_q |-> f.video_q]
    /\ resp' = AnswerSuccess(f)
    /\ sms' = << >>
    /\ UNCHANGED threads

\* AnswerRaised of a handler that stores the session of the question before it
\* calls call_gemini
AnswerRaisedForgets(user_field, text_field, user_id, text) ==
    /\ req' = [endpoint |-> "/answer", user_id |-> user_field, text |-> text_field]
    /\ llm' = << [question |-> text, forced_topic |-> ForcedTopic[text],
                  raised |-> TRUE, text |-> ""] >>
    /\ locals' = [user_id |-> user_id, text |-> text, forced_topic |-> ForcedTopic[text]]
    /\ resp' = AnswerFailure
    /\ sms' = << >>
    /\ replaced' = FALSE
    /\ SESSIONS' = SessionPut(SESSIONS, user_id,
                              [current_topic |-> "", image_query |-> "",
                               video_query |-> "", last_question |-> text])
    /\ UNCHANGED <<lastAnswer, threads>>

\* /answer when call_gemini raised
AnswerRaised(user_field, text_field, user_id, text) ==
    /\ req' = [endpoint |-> "/answer", user_id |-> user_field, text |-> text_field]
    /\ llm' = << [question |-> text, forced_topic |-> ForcedTopic[text],
                  raised |-> TRUE, text |-> ""] >>
    /\ locals' = [user_id |-> user_id, text |-> text, forced_topic |-> ForcedTopic[text]]
    /\ resp' = AnswerFailure
    /\ sms' = << >>
    /\ replaced' = FALSE
    /\ UNCHANGED <<SESSIONS, lastAnswer, threads>>

Answer(user_field, text_field) ==
    \/ \E raw \in LlmReplies :
          AnswerStored(user_field, text_field, UserIdOf(user_field), Stripped[text_field],
                       raw, Answered[Stripped[text_field], raw])
    \/ AnswerRaised(user_field, text_field, UserIdOf(user_field), Stripped[text_field])

\* /show_me on a text that is no show-request
ShowMeNotShow(user_id, text, parent_phone) ==
    /\ resp' = NotShowResponse
    /\ locals' = [user_id |-> user_id, text |-> text, parent_phone |-> parent_phone]
    /\ sms' = << >>

\* /show_me on a show-request: r are the locals computed from the session read
ShowMeShow(user_id, text, parent_phone, r) ==
    /\ locals' = [user_id |-> user_id, text |-> text, parent_phone |-> parent_phone,
                  session |-> r.session, utter_topic |-> r.utter_topic,
                  topic |-> r.topic, image_src |-> r.image_src, video_src |-> r.video_src,
                  image_q |-> r.image_q, video_q |-> r.video_q]
    /\ IF SmsWanted(parent_phone)
       THEN \E raised \in SendSmsRaises :
              /\ sms' = << [to_number |-> parent_phone, message |-> r.message,
                            raised |-> raised] >>
              /\ resp' = IF raised THEN ServerError ELSE ShowResponse(r)
       ELSE /\ sms' = << >>
            /\ resp' = ShowResponse(r)

ShowMeHandler(user_id, text, parent_phone) ==
    IF ~IsShow[text]
    THEN ShowMeNotShow(user_id, text, parent_phone)
    ELSE ShowMeShow(user_id, text, parent_phone,
                    ShowFieldsOf(text, SessionGet(SESSIONS, user_id)))

\* ShowMe that keeps the explicit topic of a show-request as the topic of the
\* session of its identifier
ShowMePersisting(user_field, text_field, phone_field) ==
    /\ req' = [endpoint |-> "/show_me", user_id |-> user_field, text |-> text_field,
               parent_phone |-> phone_field]
    /\ llm' = << >>
    /\ ShowMeHandler(UserIdOf(user_field), Stripped[text_field], Stripped[phone_field])
    /\ replaced' = FALSE
    /\ SESSIONS' = IF /\ IsShow[Stripped[text_field]]
                      /\ Truthy(ForcedTopic[Stripped[text_field]])
                      /\ UserIdOf(user_field) \in DOMAIN SESSIONS
                   THEN [SESSIONS EXCEPT ![UserIdOf(user_field)].current_topic =
                                             ForcedTopic[Stripped[text_field]][1]]
                   ELSE SESSIONS
    /\ UNCHANGED <<lastAnswer, threads>>

ShowMe(user_field, text_field, phone_field) ==
    /\ req' = [endpoint |-> "/show_me", user_id |-> user_field, text |-> text_field,
               parent_phone |-> phone_field]
    /\ llm' = << >>
    /\ ShowMeHandler(UserIdOf(user_field), Stripped[text_field], Stripped[phone_field])
    /\ replaced' = FALSE
    /\ UNCHANGED <<SESSIONS, lastAnswer, threads>>

Health ==
    /\ req' = [endpoint |-> "/health"]
    /\ resp' = Ok([status |-> "ok"])
    /\ locals' = << >>
    /\ llm' = << >>
    /\ sms' = << >>
    /\ replaced' = FALSE
    /\ UNCHANGED <<SESSIONS, lastAnswer, threads>>

AnswerRequest == \E u \in UserIds, t \in Texts : Answer(u, t)

ShowMeRequest == \E u \in UserIds, t \in Texts, ph \in Phones : ShowMe(u, t, ph)

Next == AnswerRequest \/ ShowMeRequest \/ Health

Spec == Init /\ [][Next]_vars

(***************************************************************************)
(* The handlers step by step, in threads that run at the same time.  A     *)
(* step ends at each access to SESSIONS and at each blocking call          *)
(* (call_gemini, send_sms); what a handler computes on its own locals      *)
(* between two of them belongs to the step before.  A session dict is      *)
(* never changed once stored, so the dict a thread holds is a value.       *)
(***************************************************************************)
\* the requests the threads handle: two identifiers that differ in case only
ConcUserIds == {Some("u1"), Some("U1")}

ConcTexts ==
    { Some("show us"),
      Some("Show me Blood!"),
      Some(" Why do volcanoes erupt and where does the lava come from? ") }

ConcPhones == {None, Some("+15551234567")}

\* what call_gemini returns to them
ConcReplies ==
    { "Magma pushes up! [TOPIC: volcanoes] [IMAGE_QUERY: Volcano For Kids] [VIDEO_QUERY: volcano eruption]",
      "" }

\* the variables of the requests handled in one step
oneStepVars == <<req, resp, locals, llm, sms, replaced>>

\* /answer up to the call of call_gemini
ConcAnswerStart(t, user_field, text_field) ==
    /\ threads[t].pc = "idle"
    /\ threads' = [threads EXCEPT ![t] =
                      [pc |-> "call_gemini", endpoint |-> "/answer",
                       sent_id |-> user_field, user_id |-> UserIdOf(user_field),
                       text |-> Stripped[text_field]]]
    /\ UNCHANGED <<SESSIONS, lastAnswer, oneStepVars>>

\* call_gemini returns raw: the reply is parsed and the fallback logic run
ConcAnswerReturned(t, raw) ==
    /\ threads[t].pc = "call_gemini"
    /\ threads' = [threads EXCEPT ![t] =
                      [pc |-> "store", endpoint |-> "/answer",
                       sent_id |-> threads[t].sent_id, user_id |-> threads[t].user_id,
                       text |-> threads[t].text, raw |-> raw]]
    /\ UNCHANGED <<SESSIONS, lastAnswer, oneStepVars>>

\* call_gemini raises: the except branch
ConcAnswerRaised(t) ==
    /\ threads[t].pc = "call_gemini"
    /\ threads' = [threads EXCEPT ![t] =
                      [pc |-> "done", endpoint |-> "/answer",
                       sent_id |-> threads[t].sent_id, user_id |-> threads[t].user_id,
                       text |-> threads[t].text,
                       resp |-> AnswerFailure]]
    /\ UNCHANGED <<SESSIONS, lastAnswer, oneStepVars>>

\* SESSIONS[user_id] = {...} of the thread th, whose locals are f, and the response
ConcAnswerStoreAs(t, th, f) ==
    /\ SESSIONS' = SessionPut(SESSIONS, th.user_id, NewSession(th.text, f))
    /\ lastAnswer' = [k \in DOMAIN lastAnswer \cup {th.user_id} |->
                         IF k = th.user_id THEN [text |-> th.text, raw |-> th.raw]
                         ELSE lastAnswer[k]]
    /\ threads' = [threads EXCEPT ![t] =
                      [pc |-> "done", endpoint |-> "/answer",
                       sent_id |-> th.sent_id, user_id |-> th.user_id,
                       text |-> th.text, raw |-> th.raw, resp |-> AnswerSuccess(f)]]
    /\ UNCHANGED oneStepVars

ConcAnswerStore(t) ==
    /\ threads[t].pc = "store"
    /\ ConcAnswerStoreAs(t, threads[t], Answered[threads[t].text, threads[t].raw])

\* /show_me up to the trigger test, which answers at once when it fails
ConcShowStart(t, user_field, text_field, phone_field) ==
    /\ threads[t].pc = "idle"
    /\ threads' = [threads EXCEPT ![t] =
                      IF ~IsShow[Stripped[text_field]]
                      THEN [pc |-> "done", endpoint |-> "/show_me",
                            sent_id |-> user_field, user_id |-> UserIdOf(user_field),
                            text |-> Stripped[text_field],
                            parent_phone |-> Stripped[phone_field], resp |-> NotShowResponse]
                      ELSE [pc |-> "read", endpoint |-> "/show_me",
                            sent_id |-> user_field, user_id |-> UserIdOf(user_field),
                            text |-> Stripped[text_field],
                            parent_phone |-> Stripped[phone_field]]]
    /\ UNCHANGED <<SESSIONS, lastAnswer, oneStepVars>>

\* the thread th of /show_me with the session it read and the locals r made from it
ConcShown(th, session, r) ==
    [ endpoint |-> "/show_me", sent_id |-> th.sent_id, user_id |-> th.user_id,
      text |-> th.text,
      parent_phone |-> th.parent_phone, session |-> session,
      topic |-> r.topic, image_q |-> r.image_q, video_q |-> r.video_q,
      image_url |-> r.image_url, video_url |-> r.video_url ]

\* the thread th when its handler has returned resp
ConcDone(th, resp_) == [k \in DOMAIN th \cup {"pc", "resp"} |->
                           IF k = "pc" THEN "done" ELSE IF k = "resp" THEN resp_ ELSE th[k]]

\* the thread th when its handler calls send_sms
ConcSending(th) == [k \in DOMAIN th \cup {"pc"} |-> IF k = "pc" THEN "send_sms" ELSE th[k]]

\* session = SESSIONS.get(user_id, {}) and what /show_me computes from it, up
\* to send_sms or, without parent_phone, to the response
ConcShowReadAs(t, shown, r) ==
    /\ threads' = [threads EXCEPT ![t] =
                      IF SmsWanted(shown.parent_phone)
                      THEN ConcSending(shown)
                      ELSE ConcDone(shown, ShowResponse(r))]
    /\ UNCHANGED <<SESSIONS, lastAnswer, oneStepVars>>

ConcShowReadOf(t, th, session, r) == ConcShowReadAs(t, ConcShown(th, session, r), r)

\* ConcShowRead that reads SESSIONS twice: for the topic, and in a later step
\* for the queries
ConcShowReadTwice(t) ==
    /\ threads[t].pc = "read"
    /\ IF "session" \notin DOMAIN threads[t]
       THEN /\ threads' = [threads EXCEPT ![t] =
                              [k \in DOMAIN threads[t] \cup {"session"} |->
                                  IF k = "session" THEN SessionGet(SESSIONS, threads[t].user_id)
                                  ELSE threads[t][k]]]
            /\ UNCHANGED <<SESSIONS, lastAnswer, oneStepVars>>
       ELSE ConcShowReadOf(t, threads[t], threads[t].session,
                           [ShowFieldsOf(threads[t].text, SessionGet(SESSIONS, threads[t].user_id))
                               EXCEPT !.topic = ShowFieldsOf(threads[t].text,
                                                             threads[t].session).topic])

ConcShowRead(t) ==
    /\ threads[t].pc = "read"
    /\ ConcShowReadOf(t, threads[t], SessionGet(SESSIONS, threads[t].user_id),
                      ShowFieldsOf(threads[t].text, SessionGet(SESSIONS, threads[t].user_id)))

\* send_sms returns or raises, and the response
ConcShowSend(t, raised) ==
    /\ threads[t].pc = "send_sms"
    /\ threads' = [threads EXCEPT ![t] =
                      ConcDone(threads[t],
                               IF raised THEN ServerError
                               ELSE ShowResponse([spoken    |-> ShowSpoken(threads[t].topic),
                                                  image_url |-> threads[t].image_url,
                                                  video_url |-> threads[t].video_url]))]
    /\ UNCHANGED <<SESSIONS, lastAnswer, oneStepVars>>

\* the response is sent and the thread is free for the next request
ConcReturn(t) ==
    /\ threads[t].pc = "done"
    /\ threads' = [threads EXCEPT ![t] = Idle]
    /\ UNCHANGED <<SESSIONS, lastAnswer, oneStepVars>>

ConcAnswerRequest == \E t \in Threads, u \in ConcUserIds, x \in ConcTexts : ConcAnswerStart(t, u, x)

ConcAnswerReply == \E t \in Threads, raw \in ConcReplies : ConcAnswerReturned(t, raw)

ConcAnswerFailure == \E t \in Threads : ConcAnswerRaised(t)

ConcAnswerWrite == \E t \in Threads : ConcAnswerStore(t)

ConcShowRequest ==
    \E t \in Threads, u \in ConcUserIds, x \in ConcTexts, ph \in ConcPhones :
        ConcShowStart(t, u, x, ph)

ConcShowSession == \E t \in Threads : ConcShowRead(t)

ConcShowSms == \E t \in Threads, raised \in SendSmsRaises : ConcShowSend(t, raised)

ConcResponse == \E t \in Threads : ConcReturn(t)

ConcNext ==
    \/ ConcAnswerRequest
    \/ ConcAnswerReply
    \/ ConcAnswerFailure
    \/ ConcAnswerWrite
    \/ ConcShowRequest
    \/ ConcShowSession
    \/ ConcShowSms
    \/ ConcResponse

ConcSpec == Init /\ [][ConcNext]_vars

(***************************************************************************)
(* Properties                                                              *)
(***************************************************************************)
Endpoint == IF req = << >> THEN "" ELSE req.endpoint

\* the request handled last was a /show_me whose text is a show-request
ShowRequestHandled == Endpoint = "/show_me" /\ IsShow[locals.text]

\* the request handled last was a /show_me or /answer whose text is no show-request
StatementHandled == Endpoint \in {"/answer", "/show_me"} /\ ~IsShow[locals.text]

\* the request handled last was an /answer whose call of the model returned
AnswerStoredLast == Endpoint = "/answer" /\ ~llm[1].raised

\* the request handled last was an /answer whose call of the model raised
AnswerRaisedLast == Endpoint = "/answer" /\ llm[1].raised

\* the current_topic stored for user_id, "" when there is no session
StoredTopic(user_id) ==
    IF user_id \in DOMAIN SESSIONS THEN SESSIONS[user_id].current_topic ELSE ""

\* the response carries no image or video link
NoLinks == resp.status = "200" /\ DOMAIN resp.body \cap {"image_url", "video_url"} = {}

\* C1: a show-request to /show_me uses the non-empty topic of the utterance, else
\* the non-empty current_topic of the session of its identifier, else the
\* fallback literal, and the spoken confirmation names that topic.
C1_TopicPriority ==
    ShowRequestHandled =>
        /\ Truthy(ForcedTopic[locals.text]) => locals.topic = ForcedTopic[locals.text][1]
        /\ ~Truthy(ForcedTopic[locals.text]) /\ StoredTopic(locals.user_id) # ""
              => locals.topic = StoredTopic(locals.user_id)
        /\ ~Truthy(ForcedTopic[locals.text]) /\ StoredTopic(locals.user_id) = ""
              => locals.topic = FallbackTopic
        /\ resp.status = "200" => resp.body.spoken = ShowSpoken(locals.topic)

\* an explicit topic won over a different stored one
C1_Witness ==
    /\ ShowRequestHandled
    /\ Truthy(ForcedTopic[locals.text])
    /\ StoredTopic(locals.user_id) # ""
    /\ StoredTopic(locals.user_id) # locals.topic
    /\ resp.status = "200"

ExpectedAnswerTopic(text, raw) ==
    OrElse(Parsed[raw].topic, OrElse(ForcedTopic[text], Prefix(text, TopicMaxLen)))

C3_ClarifyWhenUnresolved ==
    (/\ ShowRequestHandled
     /\ ForcedTopic[locals.text] = None
     /\ locals.user_id \notin DOMAIN SESSIONS)
    => (NoLinks /\ sms = << >>)

\* C4: when send_sms raises, /show_me still returns the confirmation and the links.
C4_DeliveryFailureInvisible ==
    (ShowRequestHandled /\ sms # << >> /\ sms[1].raised)
    => (/\ resp.status = "200"
        /\ DOMAIN resp.body = {"spoken", "image_url", "video_url"}
        /\ resp.body.spoken = ShowSpoken(locals.topic))

\* C5: send_sms is called at most once per request, only by /show_me on a
\* show-request with a non-empty parent_phone, and its message holds the topic
\* and the two URLs of the response.
C5_DeliveryOnlyWhenDue ==
    /\ Len(sms) <= 1
    /\ sms # << >> =>
          /\ ShowRequestHandled
          /\ Stripped[req.parent_phone] # ""
          /\ sms[1].to_number = Stripped[req.parent_phone]
          /\ Contains(sms[1].message, locals.topic)
          /\ resp.status = "200" =>
                /\ Contains(sms[1].message, resp.body.image_url)
                /\ Contains(sms[1].message, resp.body.video_url)
                /\ resp.body.image_url # resp.body.video_url

\* a message was sent and the response carries its links
C5_Witness == sms # << >> /\ ~sms[1].raised /\ resp.status = "200"

\* the denylisted substrings the specification names (its Topic Sanitizer)
Denylist == {"blood", "gore", "surgery", "corpse"}

\* C6: the queries of a show-request hold no denylisted substring.
C6_QueriesSanitized ==
    ShowRequestHandled =>
        \A d \in Denylist :
            /\ ~Contains(Lower(locals.image_q), d)
            /\ ~Contains(Lower(locals.video_q), d)

\* the queries the handlers compute on the requests of the model, and what
\* they are computed from
KnownQueries ==
    UNION { {Answered[k].image_q, Answered[k].video_q,
             Strip(Answered[k].image_src), Strip(Answered[k].video_src)} : k \in DOMAIN Answered }
    \cup
    UNION { {Shown[k].image_q, Shown[k].video_q,
             Strip(Shown[k].image_src), Strip(Shown[k].video_src)} : k \in DOMAIN Shown }

Marker == [q \in KnownQueries |-> HasKidMarker(q)]

\* q contains "for kids" or "kid friendly", in any case
Marked(q) == IF q \in KnownQueries THEN Marker[q] ELSE HasKidMarker(q)

\* a query and the string it was made from: marked, and the stripped string
\* itself when that is marked already
MarkedOnce(q, src) == Marked(q) /\ (Marked(Strip(src)) => q = Strip(src))

\* C7: every stored query and every query a handler computes contains a
\* kid-safety marker, and a query made from a string that has one is that string.
C7_QueriesMarked ==
    /\ \A k \in DOMAIN SESSIONS :
          Marked(SESSIONS[k].image_query) /\ Marked(SESSIONS[k].video_query)
    /\ "image_q" \in DOMAIN locals =>
          /\ MarkedOnce(locals.image_q, locals.image_src)
          /\ MarkedOnce(locals.video_q, locals.video_src)
    /\ AnswerStoredLast =>
          /\ Marked(resp.body.image_query)
          /\ Marked(resp.body.video_query)
          /\ SESSIONS[locals.user_id].image_query = resp.body.image_query
          /\ SESSIONS[locals.user_id].video_query = resp.body.video_query

\* an implicit show-request reused the marked queries of its session as they were
C7_Witness ==
    /\ ShowRequestHandled
    /\ ForcedTopic[locals.text] = None
    /\ locals.user_id \in DOMAIN SESSIONS
    /\ locals.image_q = SESSIONS[locals.user_id].image_query
    /\ locals.video_q = SESSIONS[locals.user_id].video_query
    /\ locals.video_q # locals.topic \o " videos for kids"

\* C8: when call_gemini raises, /answer answers with the spoken fallback alone.
C8_AnswerFailureFallback ==
    AnswerRaisedLast =>
        /\ resp.status = "200"
        /\ DOMAIN resp.body = {"spoken"}
        /\ Contains(resp.body.spoken, "having a little trouble thinking")

\* call_gemini raised for an identifier that has a session
C8_Witness == AnswerRaisedLast /\ locals.user_id \in DOMAIN SESSIONS

\* C9: the store holds, for each identifier that was answered, exactly the
\* record made from the utterance and the reply of its last /answer that stored.
C9_SessionIsLastWrite ==
    /\ DOMAIN SESSIONS = DOMAIN lastAnswer
    /\ \A k \in DOMAIN SESSIONS :
          SESSIONS[k] = NewSession(lastAnswer[k].text,
                                   Answered[lastAnswer[k].text, lastAnswer[k].raw])

\* an /answer wrote over the session of its identifier with different queries
C9_Witness ==
    /\ AnswerStoredLast
    /\ replaced
    /\ Cardinality(DOMAIN SESSIONS) > 1
    /\ \E k \in DOMAIN SESSIONS :
          SESSIONS[k].image_query # SESSIONS[locals.user_id].image_query

\* a field of the request handled last is missing or empty
MissingInput ==
    /\ Endpoint \in {"/answer", "/show_me"}
    /\ \/ req.user_id = None
       \/ locals.text = ""
       \/ Endpoint = "/show_me" /\ locals.parent_phone = ""

\* C10: a request with a missing field is answered with a clarifying sentence
\* alone: no exception, no link, no topic, no confirmation that links were sent.
C10_MissingInputClarified ==
    MissingInput =>
        /\ resp.status = "200"
        /\ DOMAIN resp.body = {"spoken"}
        /\ ~Contains(resp.body.spoken, "I sent them to your grown-up")

\* the locals of the last /answer of user_id that stored
LastAnswered(user_id) == Answered[lastAnswer[user_id].text, lastAnswer[user_id].raw]

\* the show-request handled last has no explicit topic: the extraction gave
\* None or the empty string
ImplicitShowHandled == ShowRequestHandled /\ ~Truthy(ForcedTopic[locals.text])

\* the show-request handled last has an explicit topic
ExplicitShowHandled == ShowRequestHandled /\ Truthy(ForcedTopic[locals.text])

\* C11: a /show_me request leaves SESSIONS as it was, whatever its text, its
\* destination and the outcome of send_sms; so an implicit show-request uses
\* the topic the last /answer of its identifier stored (the fallback literal
\* when that topic is empty), whatever show-requests came in between.
C11_ShowMeKeepsSessions ==
    /\ [][Endpoint' = "/show_me" => SESSIONS' = SESSIONS]_vars
    /\ []((ImplicitShowHandled /\ locals.user_id \in DOMAIN lastAnswer) =>
             locals.topic = OrElse(Some(LastAnswered(locals.user_id).topic), FallbackTopic))

\* a show-request with an explicit topic, whose send_sms raised, left a
\* different stored topic in place
C11_Witness ==
    /\ ExplicitShowHandled
    /\ sms # << >> /\ sms[1].raised
    /\ locals.user_id \in DOMAIN SESSIONS
    /\ SESSIONS[locals.user_id].current_topic # locals.topic
    /\ SESSIONS[locals.user_id].current_topic = LastAnswered(locals.user_id).topic

\* the links of the queries the handlers compute
ImageUrl == [q \in KnownQueries |-> google_images_url(q)]

VideoUrl == [q \in KnownQueries |-> youtube_url(q)]

\* the queries made from the explicit topic of text alone
ExplicitQueries ==
    [text \in {t \in RequestTexts : Truthy(ForcedTopic[t])} |->
        [ image_q |-> ensure_kid_friendly_image_query(ForcedTopic[text][1]),
          video_q |-> ensure_kid_friendly_video_query(ForcedTopic[text][1] \o " videos") ]]

\* C12: an implicit show-request of an identifier with a session uses the
\* image_query and the video_query the last /answer of that identifier stored,
\* as they are, whatever the topic; a show-request with an explicit topic uses
\* the queries made from that topic alone, whatever the session holds; the
\* links of the response are the links of those queries.
C12_CachedQueriesReused ==
    ShowRequestHandled =>
        /\ (ImplicitShowHandled /\ locals.user_id \in DOMAIN lastAnswer) =>
              /\ locals.image_q = LastAnswered(locals.user_id).image_q
              /\ locals.video_q = LastAnswered(locals.user_id).video_q
        /\ ExplicitShowHandled =>
              /\ locals.image_q = ExplicitQueries[locals.text].image_q
              /\ locals.video_q = ExplicitQueries[locals.text].video_q
        /\ resp.status = "200" =>
              /\ resp.body.image_url = ImageUrl[locals.image_q]
              /\ resp.body.video_url = VideoUrl[locals.video_q]

\* an implicit show-request sent links of cached queries that are not the
\* queries its topic would give
C12_Witness ==
    /\ ImplicitShowHandled
    /\ locals.user_id \in DOMAIN SESSIONS
    /\ locals.image_q = SESSIONS[locals.user_id].image_query
    /\ locals.image_q # "kid friendly " \o locals.topic
    /\ locals.video_q # locals.topic \o " videos for kids"
    /\ sms # << >> /\ resp.status = "200"
    /\ resp.body.image_url = ImageUrl[SESSIONS[locals.user_id].image_query]

\* the thread t is in /answer and has called call_gemini, which returned
Storing(t) == threads[t].pc = "store"

\* the thread t has run SESSIONS[user_id] = {...} and not yet sent its response
Stored(t) ==
    threads[t].pc = "done" /\ threads[t].endpoint = "/answer" /\ "raw" \in DOMAIN threads[t]

\* the dict the thread t of /answer stores
ThreadRecord(t) == NewSession(threads[t].text, Answered[threads[t].text, threads[t].raw])

ShowHolds(t) ==
    threads[t].pc \in {"send_sms", "done"} /\ "topic" \in DOMAIN threads[t]

\* the topic and the queries an implicit show-request uses when the session it
\* read is the record f of one /answer
FromOneAnswer(th, text, f) ==
    /\ th.session = NewSession(text, f)
    /\ th.topic = OrElse(Some(f.topic), FallbackTopic)
    /\ th.image_q = f.image_q
    /\ th.video_q = f.video_q

\* C17: under every interleaving of /answer and /show_me requests, the topic,
\* the image query and the video query of an implicit show-request all come
\* from one record, stored whole by one /answer: the session the thread read
\* in its single read of SESSIONS, which at that moment was the record of the
\* last /answer of the identifier that stored; with no session they are the
\* fallback literal and the queries made from it.  The links of the response
\* are the links of those queries.
C17_OneRecordPerResponse ==
    /\ [](\A t \in Threads :
             (ShowHolds(t) /\ ~Truthy(ForcedTopic[threads[t].text])) =>
                /\ \/ /\ threads[t].session = << >>
                      /\ threads[t].topic = FallbackTopic
                      /\ threads[t].image_q = "kid friendly " \o FallbackTopic
                   \/ \E x \in ConcTexts, raw \in ConcReplies :
                         FromOneAnswer(threads[t], Stripped[x], Answered[Stripped[x], raw])
                /\ (threads[t].pc = "done" /\ threads[t].resp.status = "200") =>
                      /\ threads[t].resp.body.image_url = ImageUrl[threads[t].image_q]
                      /\ threads[t].resp.body.video_url = VideoUrl[threads[t].video_q])
    /\ [][\A t \in Threads :
             (threads[t].pc = "read" /\ ShowHolds(t)') =>
                /\ threads'[t].session = SessionGet(SESSIONS, threads[t].user_id)
                /\ threads[t].user_id \in DOMAIN lastAnswer =>
                      threads'[t].session = NewSession(lastAnswer[threads[t].user_id].text,
                                                       LastAnswered(threads[t].user_id))]_vars

\* an implicit show-request answers with the topic and the queries of the
\* session it read while an /answer of the same identifier has stored another
C17_Witness ==
    \E t1, t2 \in Threads :
       /\ ShowHolds(t1) /\ ~Truthy(ForcedTopic[threads[t1].text])
       /\ threads[t1].pc = "done" /\ threads[t1].resp.status = "200"
       /\ threads[t1].session # << >>
       /\ Stored(t2) /\ threads[t2].user_id = threads[t1].user_id
       /\ SESSIONS[threads[t1].user_id] = ThreadRecord(t2)
       /\ threads[t1].topic = threads[t1].session.current_topic
       /\ threads[t1].image_q = threads[t1].session.image_query
       /\ threads[t1].topic # SESSIONS[threads[t1].user_id].current_topic
       /\ threads[t1].image_q # SESSIONS[threads[t1].user_id].image_query
       /\ threads[t1].video_q # SESSIONS[threads[t1].user_id].video_query

\* sessions /answer never stores: empty queries, an empty topic, a missing key
OddSessions ==
    { << >>,
      [current_topic |-> "", image_query |-> "", video_query |-> "", last_question |-> ""],
      [current_topic |-> "", image_query |-> " ", video_query |-> " ", last_question |-> ""],
      [current_topic |-> "whales"] }

\* what /show_me resolves on them, for each outcome of the extraction
OddResolved ==
    [u \in {None, Some(""), Some("blood")}, session \in OddSessions |-> ResolveShow(u, session)]

\* C14: a show-request to /show_me never uses an empty topic or an empty
\* query: the topic of the confirmation and of the message is not empty and
\* neither query is, also when the extraction gives the empty string, when
\* the stored current_topic is empty and when the session has no queries.
C14_NoEmptyTopic ==
    /\ \A k \in DOMAIN OddResolved :
          OddResolved[k].topic # "" /\ OddResolved[k].image_q # "" /\ OddResolved[k].video_q # ""
    /\ ShowRequestHandled =>
          /\ locals.topic # ""
          /\ locals.image_q # "" /\ locals.video_q # ""
          /\ sms # << >> => Contains(sms[1].message, "about " \o locals.topic \o "!")
          /\ resp.status = "200" =>
                /\ resp.body.spoken = ShowSpoken(locals.topic)
                /\ resp.body.image_url = ImageUrl[locals.image_q]
                /\ resp.body.video_url = VideoUrl[locals.video_q]

\* the extraction gave the empty string and the stored topic is empty: the
\* confirmation and the message name the fallback literal
C14_Witness ==
    /\ ShowRequestHandled
    /\ ForcedTopic[locals.text] = Some("")
    /\ locals.user_id \in DOMAIN SESSIONS
    /\ SESSIONS[locals.user_id].current_topic = ""
    /\ locals.topic = FallbackTopic
    /\ sms # << >> /\ resp.status = "200"

\* C15: no session holds an empty current_topic, and the topic /answer returns
\* is not empty.
C15_TopicNeverEmpty ==
    /\ \A k \in DOMAIN SESSIONS : SESSIONS[k].current_topic # ""
    /\ AnswerStoredLast => resp.body.topic # ""

\* C16: when the reply of the model has no topic tag, /answer takes the
\* explicit topic of the utterance, else the topic the session of the
\* identifier held before the request, else the fallback literal; a query the
\* reply lacks is made from that topic.  (Stated for utterances that are not
\* empty.)
C16_AnswerFallbackChain ==
    [][ (AnswerStoredLast' /\ locals'.text # "" /\ Parsed[llm'[1].text].topic = None) =>
           /\ locals'.topic =
                 OrElse(ForcedTopic[locals'.text],
                        OrElse(Some(StoredTopic(locals'.user_id)), FallbackTopic))
           /\ Parsed[llm'[1].text].image_q = None =>
                 locals'.image_q = ensure_kid_friendly_image_query(locals'.topic)
           /\ Parsed[llm'[1].text].video_q = None =>
                 locals'.video_q = ensure_kid_friendly_video_query(locals'.topic \o " videos") ]_vars

\* the key of the session of a request whose "user_id" field is field: the
\* identifier as it was sent
SentKey(field) == IF field = None THEN "anonymous" ELSE field[1]

\* the session of k, None when k has none
SessionOf(S, k) == IF k \in DOMAIN S THEN Some(S[k]) ELSE None

\* C18: the sessions of different identifiers are independent, under every
\* interleaving of requests.  A handler uses the identifier exactly as it was
\* sent as the key of the store; a step of a request for one identifier
\* leaves the session of every other identifier as it was (absent when it was
\* absent); and the session an implicit show-request reads is the one stored
\* under exactly its identifier, none when that identifier has none.
C18_IdentifiersIndependent ==
    /\ [](\A t \in Threads :
             threads[t].pc # "idle" => threads[t].user_id = SentKey(threads[t].sent_id))
    /\ [][\A t \in Threads :
             threads'[t] # threads[t] =>
                /\ \A k \in (DOMAIN SESSIONS \cup DOMAIN SESSIONS') :
                      (threads[t].pc # "idle" /\ k # SentKey(threads[t].sent_id)) =>
                          SessionOf(SESSIONS', k) = SessionOf(SESSIONS, k)
                /\ (threads[t].pc = "read" /\ ShowHolds(t)') =>
                      Some(threads'[t].session) =
                          IF SentKey(threads[t].sent_id) \in DOMAIN SESSIONS
                          THEN SessionOf(SESSIONS, SentKey(threads[t].sent_id))
                          ELSE Some(<< >>)]_vars

\* the two identifiers hold different sessions, and an implicit show-request
\* for one of them answers with its topic and queries, not with the other's
C18_Witness ==
    \E t \in Threads :
       /\ ShowHolds(t) /\ ~Truthy(ForcedTopic[threads[t].text])
       /\ threads[t].sent_id = Some("U1")
       /\ DOMAIN SESSIONS = {"u1", "U1"}
       /\ threads[t].session = SESSIONS["U1"]
       /\ threads[t].topic = SESSIONS["U1"].current_topic
       /\ threads[t].topic # SESSIONS["u1"].current_topic
       /\ threads[t].image_q # SESSIONS["u1"].image_query

\* C19: an /answer whose call of the model raised leaves SESSIONS as it was,
\* for its identifier and every other; an implicit show-request that comes
\* next uses the topic and the queries of the last /answer of its identifier
\* whose call returned.
C19_FailedAnswerKeepsSessions ==
    /\ [][AnswerRaisedLast' => SESSIONS' = SESSIONS]_vars
    /\ [][(AnswerRaisedLast /\ ImplicitShowHandled' /\ locals'.user_id \in DOMAIN lastAnswer) =>
             /\ locals'.session = NewSession(lastAnswer[locals'.user_id].text,
                                             LastAnswered(locals'.user_id))
             /\ locals'.topic = OrElse(Some(LastAnswered(locals'.user_id).topic), FallbackTopic)
             /\ locals'.image_q = LastAnswered(locals'.user_id).image_q
             /\ locals'.video_q = LastAnswered(locals'.user_id).video_q]_vars

\* call_gemini raised on another question of an identifier that has a
\* session: the sessions of both identifiers are those of their last /answer
C19_Witness ==
    /\ AnswerRaisedLast
    /\ Cardinality(DOMAIN SESSIONS) = 2
    /\ locals.user_id \in DOMAIN SESSIONS
    /\ SESSIONS[locals.user_id].last_question # locals.text
    /\ \A k \in DOMAIN SESSIONS : SESSIONS[k] = NewSession(lastAnswer[k].text, LastAnswered(k))

=============================================================================
